---- MODULE Spec2Model ----
(***************************************************************************)
(* Model of the Klok-BOT automation engine.                                *)
(*                                                                         *)
(*   src/src/automation.js lines   1-336 : automation.js (run state,       *)
(*                                         start / pause / resume, loop)   *)
(*   src/src/automation.js lines 338-520 : index.js (key handlers)         *)
(*   src/src/automation.js lines 522-798 : api/auth.js (executeWithRetry)  *)
(*                                                                         *)
(* JavaScript runs every callback to completion, so one action of the      *)
(* model is one synchronous segment: a handler from its call to its first  *)
(* await (with everything it calls synchronously, automationLoop's entry   *)
(* included), or the continuation of one await up to the next one.         *)
(***************************************************************************)
EXTENDS Integers, Sequences, FiniteSets, Bags, TLC

VARIABLES
    isRunning,          \* automation.js:14
    consecutiveErrors,  \* automation.js:16
    cooldownActive,     \* rateLimit.isCooldownActive() (api/rate-limit.js)
    cycles,             \* bag of automationLoop invocations and loop timers
    starts,             \* bag of startAutomation invocations in their awaits
    restartTimers,      \* pending auto-restart timers (automation.js:113)
    paused,             \* history: the last effective command was pause
    chatFailStreak,     \* history: chat-send failures in a row (negative:
                        \* not recorded in this specification)
    lastOp,             \* history: the command that just ran ("start",
                        \* "pause", "resume"), "startFail" for the catch
                        \* block of startAutomation, "sendOk" for a chat
                        \* send that succeeded, "refreshFail" for a points
                        \* or rate-limit refresh that failed, "cooldownEnd"
                        \* for the end of a cooldown, "step" for the rest
    startedSinceTimer,  \* history: an auto-restart timer is pending and a
                        \* start command took effect after it was scheduled
    quiet,              \* history: pause took effect right after a chat send
                        \* succeeded and resumeAutomation was not called since
    terminalStop,       \* history: the last start-up failed with an error
                        \* that is not transient, and since then no start or
                        \* resume command was given and no start took effect
    retry               \* one executeWithRetry invocation and its operation

vars == <<isRunning, consecutiveErrors, cooldownActive, cycles, starts,
          restartTimers, paused, chatFailStreak, lastOp, startedSinceTimer,
          quiet, terminalStop, retry>>

\* the history of commands around timers and pauses
hist == <<startedSinceTimer, quiet, terminalStop>>

autoVars == <<isRunning, consecutiveErrors, cooldownActive, cycles, starts,
              restartTimers, paused, chatFailStreak, hist>>

-----------------------------------------------------------------------------
(* Bounds of the model *)

\* automationLoop invocations and loop timers alive at once
MaxCycles == 2
\* startAutomation invocations inside their start-up awaits at once
MaxStarts == 1
\* auto-restart timers pending at once
MaxRestartTimers == 1
\* cap of consecutiveErrors (the code has none on the non-transient path)
MaxErrorCount == 5
\* Math.random() is drawn from {0/RandomSteps, ..., (RandomSteps-1)/RandomSteps}
RandomSteps == 2
\* the operation handed to executeWithRetry succeeds at call 1..MaxSucceedAt, or never
MaxSucceedAt == 8

-----------------------------------------------------------------------------
(* Program constants *)

MAX_CONSECUTIVE_ERRORS == 3
MAX_RETRIES == 5
RETRY_DELAY_MS == 2000
\* RETRY_MULTIPLIER = 1.5 = RETRY_MULTIPLIER_NUM / RETRY_MULTIPLIER_DEN
RETRY_MULTIPLIER_NUM == 3
RETRY_MULTIPLIER_DEN == 2

CHAT_SHORT_PAUSE_MS == 10000
LONG_PAUSE_MS == 180000
COOLDOWN_POLL_MS == 1000
BACKOFF_FIRST_MS == 5000
BACKOFF_REPEAT_MS == 15000
NEXT_DELAY_MIN_MS == 3000
NEXT_DELAY_SPAN_MS == 7000

-----------------------------------------------------------------------------
(* Errors and their classification *)

\* An error is its message (the words it is made of) and the HTTP status of
\* error.response (0: no response). String.includes is case sensitive.
Includes(msg, word) ==
    \E i \in 1..Len(msg) : msg[i] = word

Err(msg, status) ==
    [msg |-> msg, status |-> status]

Errors ==
    { Err(<<"socket hang up">>, 0),
      Err(<<"getaddrinfo", "network", "unreachable">>, 0),
      Err(<<"timeout", "of", "10000ms", "exceeded">>, 0),
      Err(<<"connect", "ECONNREFUSED">>, 0),
      Err(<<"Request", "failed", "with", "status", "code", "503">>, 503),
      Err(<<"Request", "failed", "with", "status", "code", "500">>, 500),
      Err(<<"Request", "failed", "with", "status", "code", "401">>, 401),
      Err(<<"Network", "Error">>, 0),
      Err(<<"Not", "authenticated.", "Please", "login", "first.">>, 0) }

isNetworkError(error) ==
    \/ Includes(error.msg, "socket hang up")
    \/ Includes(error.msg, "network")
    \/ Includes(error.msg, "timeout")
    \/ Includes(error.msg, "ECONNREFUSED")

isServerError(error) ==
    error.status # 0 /\ error.status >= 500

IsTransient(error) ==
    isNetworkError(error) \/ isServerError(error)

-----------------------------------------------------------------------------
(* automationLoop: the bag of cycles *)

Cyc(pc, delay) ==
    [pc |-> pc, delay |-> delay]

One(c) ==
    SetToBag({c})

\* pcs of a cycle that is executing (inside one of its awaits)
ExecutingPcs ==
    {"quota", "generate", "send", "sleep", "points", "rateLimit"}

\* pcs of a scheduled successor: next-cycle timer, cooldown re-poll timer,
\* error-backoff timer, pending cooldown-resume callback
PendingPcs ==
    {"timer", "poll", "backoff", "cooldown"}

NumCycles ==
    BagCardinality(cycles)

NumStarts ==
    BagCardinality(starts)

\* automationLoop() from its call to its first await or return: what the new
\* invocation becomes, given the run state and cooldown flag it reads.
AutomationLoopEntry(running, cooldown) ==
    IF ~running THEN EmptyBag
    ELSE IF cooldown THEN One(Cyc("poll", COOLDOWN_POLL_MS))
    ELSE One(Cyc("quota", 0))


\* Math.floor(Math.random() * 7000) + 3000 with Math.random() = n / RandomSteps
NextDelay(n) ==
    ((n * NEXT_DELAY_SPAN_MS) \div RandomSteps) + NEXT_DELAY_MIN_MS

NextDelays ==
    { NextDelay(n) : n \in 0..(RandomSteps - 1) }

\* rateLimit.checkRateLimitAvailability(): the cooldown flag after a check
\* that found quota (TRUE) or found it exhausted (FALSE)
CooldownAfterCheck(available, cooldown) ==
    IF available THEN FALSE ELSE cooldown

\* rateLimit.startCooldown(callback): the flag is raised at the call
CooldownAfterStart ==
    TRUE

\* the chat-send catch block: the pause it sleeps with the counter at n
ChatPause(n) ==
    IF n >= MAX_CONSECUTIVE_ERRORS THEN LONG_PAUSE_MS ELSE CHAT_SHORT_PAUSE_MS

\* the loop-level catch block with the counter already incremented to n:
\* the backoff it schedules and the counter it leaves
LoopBackoff(error, n) ==
    IF IsTransient(error)
    THEN IF n >= MAX_CONSECUTIVE_ERRORS
         THEN [backoff |-> LONG_PAUSE_MS, count |-> 0]
         ELSE IF n > 1
              THEN [backoff |-> BACKOFF_REPEAT_MS, count |-> n]
              ELSE [backoff |-> BACKOFF_FIRST_MS, count |-> n]
    ELSE [backoff |-> BACKOFF_REPEAT_MS, count |-> n]

\* history of chat-send failures in a row, restarting after the third
StreakAfterFailure(n) ==
    IF n < 0 THEN n
    ELSE IF n >= MAX_CONSECUTIVE_ERRORS THEN 1 ELSE n + 1

StreakAfterSuccess(n) ==
    IF n < 0 THEN n ELSE 0

\* the catch block of automationLoop (lines 270-319) for the cycle c
LoopCatch(c, error) ==
    LET r == LoopBackoff(error, consecutiveErrors + 1) IN
    /\ r.count <= MaxErrorCount
    /\ consecutiveErrors' = r.count
    /\ cycles' = (cycles (-) One(c)) (+) One(Cyc("backoff", r.backoff))
    /\ lastOp' = "step"
    /\ UNCHANGED <<isRunning, cooldownActive, starts, restartTimers, paused,
                   chatFailStreak, retry, hist>>

\* lines 178-198: the continuation of await checkRateLimitAvailability()
QuotaAvailable ==
    LET c == Cyc("quota", 0) IN
    /\ BagIn(c, cycles)
    /\ cooldownActive' = CooldownAfterCheck(TRUE, cooldownActive)
    /\ cycles' = (cycles (-) One(c)) (+) One(Cyc("generate", 0))
    /\ lastOp' = "step"
    /\ UNCHANGED <<isRunning, consecutiveErrors, starts, restartTimers, paused,
                   chatFailStreak, retry, hist>>

\* lines 180-196: quota exhausted, the cycle hands over to the cooldown
QuotaExhausted ==
    LET c == Cyc("quota", 0) IN
    /\ BagIn(c, cycles)
    /\ cooldownActive' = CooldownAfterStart
    /\ cycles' = (cycles (-) One(c)) (+) One(Cyc("cooldown", 0))
    /\ lastOp' = "step"
    /\ UNCHANGED <<isRunning, consecutiveErrors, starts, restartTimers, paused,
                   chatFailStreak, retry, hist>>

QuotaThrows ==
    \E error \in Errors :
        /\ BagIn(Cyc("quota", 0), cycles)
        /\ LoopCatch(Cyc("quota", 0), error)

\* lines 198-203: message generated, counter reset, chat send initiated
GenerateDone ==
    LET c == Cyc("generate", 0) IN
    /\ BagIn(c, cycles)
    /\ consecutiveErrors' = 0
    /\ cycles' = (cycles (-) One(c)) (+) One(Cyc("send", 0))
    /\ lastOp' = "step"
    /\ UNCHANGED <<isRunning, cooldownActive, starts, restartTimers, paused,
                   chatFailStreak, retry, hist>>

GenerateThrows ==
    \E error \in Errors :
        /\ BagIn(Cyc("generate", 0), cycles)
        /\ LoopCatch(Cyc("generate", 0), error)

\* lines 203-205 and 233-234: chat send succeeded
SendDone ==
    LET c == Cyc("send", 0) IN
    /\ BagIn(c, cycles)
    /\ consecutiveErrors' = 0
    /\ chatFailStreak' = StreakAfterSuccess(chatFailStreak)
    /\ cycles' = (cycles (-) One(c)) (+) One(Cyc("points", 0))
    /\ lastOp' = "sendOk"
    /\ UNCHANGED <<isRunning, cooldownActive, starts, restartTimers, paused,
                   retry, hist>>

\* a chat-send error that escapes to the catch block of line 270
SendCatchRethrows(error, n) ==
    [count |-> LoopBackoff(error, n + 1).count,
     then |-> Cyc("backoff", LoopBackoff(error, n + 1).backoff)]

\* the catch block of lines 206-230: n is consecutiveErrors; the result is
\* the counter and the cycle afterwards, asleep for the breaker pause
SendCatch(error, n) ==
    [count |-> n + 1, then |-> Cyc("sleep", ChatPause(n + 1))]

\* lines 206-230: chat send failed
SendThrows ==
    \E error \in Errors :
        LET c == Cyc("send", 0)
            r == SendCatch(error, consecutiveErrors)
        IN
        /\ BagIn(c, cycles)
        /\ r.count <= MaxErrorCount
        /\ consecutiveErrors' = r.count
        /\ chatFailStreak' = StreakAfterFailure(chatFailStreak)
        /\ cycles' = (cycles (-) One(c)) (+) One(r.then)
        /\ lastOp' = "step"
        /\ UNCHANGED <<isRunning, cooldownActive, starts, restartTimers,
                       paused, retry, hist>>

\* lines 225-234: the breaker pause is over
SleepDone ==
    \E c \in BagToSet(cycles) :
        /\ c.pc = "sleep"
        /\ consecutiveErrors' =
              IF c.delay = LONG_PAUSE_MS THEN 0 ELSE consecutiveErrors
        /\ cycles' = (cycles (-) One(c)) (+) One(Cyc("points", 0))
        /\ lastOp' = "step"
        /\ UNCHANGED <<isRunning, cooldownActive, starts, restartTimers, paused,
                       chatFailStreak, retry, hist>>

\* lines 233-239: the points refresh resolved
PointsDone ==
    LET c == Cyc("points", 0) IN
    /\ BagIn(c, cycles)
    /\ cycles' = (cycles (-) One(c)) (+) One(Cyc("rateLimit", 0))
    /\ lastOp' = "step"
    /\ UNCHANGED <<isRunning, consecutiveErrors, cooldownActive, starts,
                   restartTimers, paused, chatFailStreak, retry, hist>>

\* a refresh whose error escapes to the catch block of line 270
RefreshCatchRethrows(error, n, next) ==
    [count |-> LoopBackoff(error, n + 1).count,
     then |-> Cyc("backoff", LoopBackoff(error, n + 1).backoff)]

\* the catch blocks of lines 240-246 and 256-262: the error of a refresh is
\* logged and dropped; n is consecutiveErrors, next is where the cycle goes
\* on; the result is the counter and the cycle afterwards
RefreshCatch(error, n, next) ==
    [count |-> n, then |-> next]

\* lines 233-248: the points refresh failed
PointsFails ==
    \E error \in Errors :
        LET c == Cyc("points", 0)
            r == RefreshCatch(error, consecutiveErrors, Cyc("rateLimit", 0))
        IN
        /\ BagIn(c, cycles)
        /\ r.count <= MaxErrorCount
        /\ consecutiveErrors' = r.count
        /\ cycles' = (cycles (-) One(c)) (+) One(r.then)
        /\ lastOp' = "refreshFail"
        /\ UNCHANGED <<isRunning, cooldownActive, starts, restartTimers,
                       paused, chatFailStreak, retry, hist>>

\* lines 248-269: the rate-limit refresh resolved, successor scheduled
RateLimitDone ==
    \E n \in 0..(RandomSteps - 1) :
        LET c == Cyc("rateLimit", 0) IN
        /\ BagIn(c, cycles)
        /\ cycles' = (cycles (-) One(c)) (+) One(Cyc("timer", NextDelay(n)))
        /\ lastOp' = "step"
        /\ UNCHANGED <<isRunning, consecutiveErrors, cooldownActive, starts,
                       restartTimers, paused, chatFailStreak, retry, hist>>

\* lines 248-269: the rate-limit refresh failed, successor scheduled
RateLimitFails ==
    \E error \in Errors, n \in 0..(RandomSteps - 1) :
        LET c == Cyc("rateLimit", 0)
            r == RefreshCatch(error, consecutiveErrors,
                              Cyc("timer", NextDelay(n)))
        IN
        /\ BagIn(c, cycles)
        /\ r.count <= MaxErrorCount
        /\ consecutiveErrors' = r.count
        /\ cycles' = (cycles (-) One(c)) (+) One(r.then)
        /\ lastOp' = "refreshFail"
        /\ UNCHANGED <<isRunning, cooldownActive, starts, restartTimers,
                       paused, chatFailStreak, retry, hist>>

\* setTimeout(automationLoop, ...) of lines 174 and 269 fires
TimerFire ==
    \E c \in BagToSet(cycles) :
        /\ c.pc \in {"timer", "poll"}
        /\ cycles' = (cycles (-) One(c))
                        (+) AutomationLoopEntry(isRunning, cooldownActive)
        /\ lastOp' = "step"
        /\ UNCHANGED <<isRunning, consecutiveErrors, cooldownActive, starts,
                       restartTimers, paused, chatFailStreak, retry, hist>>

\* the backoff timers of lines 303-317 firing without calling automationLoop
BackoffCallbackDropped(running, cooldown) ==
    EmptyBag

\* the callbacks of lines 303-309 and 311-317
BackoffCallback(running, cooldown) ==
    IF running THEN AutomationLoopEntry(running, cooldown) ELSE EmptyBag

BackoffFire ==
    \E c \in BagToSet(cycles) :
        /\ c.pc = "backoff"
        /\ cycles' = (cycles (-) One(c))
                        (+) BackoffCallback(isRunning, cooldownActive)
        /\ lastOp' = "step"
        /\ UNCHANGED <<isRunning, consecutiveErrors, cooldownActive, starts,
                       restartTimers, paused, chatFailStreak, retry, hist>>

\* the cooldown ending without calling the callback of lines 189-193
CooldownCallbackDropped(running, cooldown) ==
    EmptyBag

\* the callback of lines 189-193 re-entering the loop as if it were Running
CooldownCallbackIgnoresPause(running, cooldown) ==
    AutomationLoopEntry(TRUE, cooldown)

\* the callback of lines 189-193, called by the cooldown when it ends
CooldownCallback(running, cooldown) ==
    IF running THEN AutomationLoopEntry(running, cooldown) ELSE EmptyBag

CooldownEnd ==
    LET c == Cyc("cooldown", 0) IN
    /\ BagIn(c, cycles)
    /\ cooldownActive' = FALSE
    /\ cycles' = (cycles (-) One(c)) (+) CooldownCallback(isRunning, FALSE)
    /\ lastOp' = "cooldownEnd"
    /\ UNCHANGED <<isRunning, consecutiveErrors, starts, restartTimers, paused,
                   chatFailStreak, retry, hist>>

-----------------------------------------------------------------------------
(* startAutomation, pauseAutomation, resumeAutomation and the key handlers *)

\* the awaits of startAutomation's try block, in order (lines 62-85)
StartSteps ==
    <<"login", "getUserInfo", "getUserPoints", "getRateLimit", "getModels",
      "selectDefaultModel">>

StepIndex(s) ==
    CHOOSE i \in 1..Len(StartSteps) : StartSteps[i] = s

\* startAutomation() without the check of lines 48-51
StartAutomationNoGuard ==
    /\ NumStarts < MaxStarts
    /\ isRunning' = TRUE
    /\ consecutiveErrors' = 0
    /\ starts' = starts (+) One(StartSteps[1])
    /\ paused' = FALSE

\* startAutomation() from its call to its first await (lines 47-62)
StartAutomationCall ==
    IF isRunning
    THEN UNCHANGED <<isRunning, consecutiveErrors, starts, paused>>
    ELSE /\ NumStarts < MaxStarts
         /\ isRunning' = TRUE
         /\ consecutiveErrors' = 0
         /\ starts' = starts (+) One(StartSteps[1])
         /\ paused' = FALSE

\* pauseAutomation() (lines 126-137)
PauseAutomationCall ==
    IF ~isRunning
    THEN UNCHANGED <<isRunning, paused>>
    ELSE /\ isRunning' = FALSE
         /\ paused' = TRUE

\* resumeAutomation() without the cooldown check of lines 148-152
ResumeAutomationNoCooldownCheck ==
    IF isRunning
    THEN UNCHANGED <<isRunning, consecutiveErrors, cycles, paused>>
    ELSE /\ NumCycles < MaxCycles
         /\ isRunning' = TRUE
         /\ consecutiveErrors' = 0
         /\ paused' = FALSE
         /\ cycles' = cycles (+) AutomationLoopEntry(TRUE, cooldownActive)

\* resumeAutomation() (lines 142-162)
ResumeAutomationCall ==
    IF isRunning
    THEN UNCHANGED <<isRunning, consecutiveErrors, cycles, paused>>
    ELSE IF cooldownActive
         THEN UNCHANGED <<isRunning, consecutiveErrors, cycles, paused>>
         ELSE /\ NumCycles < MaxCycles
              /\ isRunning' = TRUE
              /\ consecutiveErrors' = 0
              /\ paused' = FALSE
              /\ cycles' = cycles (+) AutomationLoopEntry(TRUE, cooldownActive)

\* history of a start command: it took effect (line 53 ran) while an
\* auto-restart timer of lines 113-118 was pending
StartCommand(effective) ==
    /\ startedSinceTimer' =
          (startedSinceTimer \/ (effective /\ restartTimers > 0))
    /\ terminalStop' = FALSE
    /\ UNCHANGED quiet

\* history of a pause command: it took effect (line 132 ran) right after the
\* continuation of a successful chat send (line 205)
PauseCommand(effective) ==
    /\ quiet' = (quiet \/ (effective /\ lastOp = "sendOk"))
    /\ UNCHANGED <<startedSinceTimer, terminalStop>>

\* history of a resume command: resumeAutomation() was called
ResumeCommand ==
    /\ quiet' = FALSE
    /\ terminalStop' = FALSE
    /\ UNCHANGED startedSinceTimer

\* a direct call of the exported startAutomation
StartAutomation ==
    /\ StartAutomationCall
    /\ StartCommand(~isRunning)
    /\ lastOp' = "start"
    /\ UNCHANGED <<cooldownActive, cycles, restartTimers, chatFailStreak,
                   retry>>

\* the 's' key handler (lines 387-407); tokenFile: session-token.key is there
KeyS ==
    \E tokenFile \in BOOLEAN :
        /\ IF ~isRunning /\ tokenFile
           THEN StartAutomationCall
           ELSE UNCHANGED <<isRunning, consecutiveErrors, starts, paused>>
        /\ StartCommand(~isRunning /\ tokenFile)
        /\ lastOp' = "start"
        /\ UNCHANGED <<cooldownActive, cycles, restartTimers, chatFailStreak,
                       retry>>

\* a direct call of the exported pauseAutomation
PauseAutomation ==
    /\ PauseAutomationCall
    /\ PauseCommand(isRunning)
    /\ lastOp' = "pause"
    /\ UNCHANGED <<consecutiveErrors, cooldownActive, cycles, starts,
                   restartTimers, chatFailStreak, retry>>

\* the 'p' key handler (lines 409-418)
KeyP ==
    /\ IF isRunning
       THEN PauseAutomationCall
       ELSE UNCHANGED <<isRunning, paused>>
    /\ PauseCommand(isRunning)
    /\ lastOp' = "pause"
    /\ UNCHANGED <<consecutiveErrors, cooldownActive, cycles, starts,
                   restartTimers, chatFailStreak, retry>>

\* a direct call of the exported resumeAutomation
ResumeAutomation ==
    /\ ResumeAutomationCall
    /\ ResumeCommand
    /\ lastOp' = "resume"
    /\ UNCHANGED <<cooldownActive, starts, restartTimers, chatFailStreak,
                   retry>>

\* the 'r' key handler (lines 420-429)
KeyR ==
    /\ IF ~isRunning
       THEN ResumeAutomationCall
       ELSE UNCHANGED <<isRunning, consecutiveErrors, cycles, paused>>
    /\ IF ~isRunning THEN ResumeCommand ELSE UNCHANGED hist
    /\ lastOp' = "resume"
    /\ UNCHANGED <<cooldownActive, starts, restartTimers, chatFailStreak,
                   retry>>

\* one start-up await before the last resolved (lines 62-85)
StartStepDone ==
    \E s \in BagToSet(starts) :
        /\ StepIndex(s) < Len(StartSteps)
        /\ starts' = (starts (-) One(s)) (+) One(StartSteps[StepIndex(s) + 1])
        /\ lastOp' = "step"
        /\ UNCHANGED <<isRunning, consecutiveErrors, cooldownActive, cycles,
                       restartTimers, paused, chatFailStreak, retry, hist>>

\* lines 85-92: the last await resolved, thread created, automationLoop() called
StartLoop(running, cooldown) ==
    AutomationLoopEntry(running, cooldown)

StartFinish ==
    LET s == StartSteps[Len(StartSteps)] IN
    /\ BagIn(s, starts)
    /\ NumCycles + BagCardinality(StartLoop(isRunning, cooldownActive))
          <= MaxCycles
    /\ starts' = starts (-) One(s)
    /\ cycles' = cycles (+) StartLoop(isRunning, cooldownActive)
    /\ lastOp' = "step"
    /\ UNCHANGED <<isRunning, consecutiveErrors, cooldownActive, restartTimers,
                   paused, chatFailStreak, retry, hist>>

\* the catch block without the assignment of line 94
StartCatchKeepsRunning ==
    isRunning

\* the catch block of startAutomation (lines 93-120): the run state it leaves
StartCatchRunning ==
    FALSE

\* lines 102-119: the auto-restart timers after the catch block
StartCatchTimers(error, timers) ==
    IF IsTransient(error) THEN timers + 1 ELSE timers

\* a start-up step threw: an await rejected, or chat.createThread() threw
\* after the last await resolved
StartThrows ==
    \E s \in BagToSet(starts), error \in Errors :
        /\ StartCatchTimers(error, restartTimers) <= MaxRestartTimers
        /\ starts' = starts (-) One(s)
        /\ isRunning' = StartCatchRunning
        /\ paused' = FALSE
        /\ restartTimers' = StartCatchTimers(error, restartTimers)
        /\ startedSinceTimer' =
              (startedSinceTimer /\ ~IsTransient(error))
        /\ terminalStop' = ~IsTransient(error)
        /\ lastOp' = "startFail"
        /\ UNCHANGED <<consecutiveErrors, cooldownActive, cycles,
                       chatFailStreak, retry, quiet>>

\* the auto-restart timer of lines 113-118 fires
RestartFire ==
    /\ restartTimers > 0
    /\ restartTimers' = restartTimers - 1
    /\ IF ~isRunning
       THEN StartAutomationCall
       ELSE UNCHANGED <<isRunning, consecutiveErrors, starts, paused>>
    /\ startedSinceTimer' = (startedSinceTimer /\ restartTimers' > 0)
    /\ terminalStop' = (terminalStop /\ ~isRunning')
    /\ lastOp' = "step"
    /\ UNCHANGED <<cooldownActive, cycles, chatFailStreak, retry, quiet>>

-----------------------------------------------------------------------------
(* executeWithRetry (lines 598-634) *)

TransientErrors ==
    { e \in Errors : IsTransient(e) }

TerminalErrors ==
    { e \in Errors : ~IsTransient(e) }

\* The operation requestFn: it succeeds from call succeedAt on (0: never);
\* before that, call terminalAt (0: none) throws terminalErr and every other
\* call throws transientErr.
Operations ==
    [succeedAt : 0..MaxSucceedAt, terminalAt : 0..MaxSucceedAt,
     transientErr : TransientErrors, terminalErr : TerminalErrors]

\* the outcome of call number n of the operation; a thrown error carries the
\* call that threw it
Outcome(op, n) ==
    IF op.succeedAt # 0 /\ n >= op.succeedAt
    THEN [ok |-> TRUE, error |-> Err(<<>>, 0), at |-> n]
    ELSE IF n = op.terminalAt
         THEN [ok |-> FALSE, error |-> op.terminalErr, at |-> n]
         ELSE [ok |-> FALSE, error |-> op.transientErr, at |-> n]

NoOutcome ==
    [ok |-> TRUE, error |-> Err(<<>>, 0), at |-> 0]

\* line 612 with nextRetryCount as the exponent
RetryDelayFromNext(retryCount) ==
    (RETRY_DELAY_MS * (RETRY_MULTIPLIER_NUM ^ (retryCount + 1)))
        \div (RETRY_MULTIPLIER_DEN ^ (retryCount + 1))

\* line 612: RETRY_DELAY_MS * Math.pow(RETRY_MULTIPLIER, retryCount)
RetryDelay(retryCount) ==
    (RETRY_DELAY_MS * (RETRY_MULTIPLIER_NUM ^ retryCount))
        \div (RETRY_MULTIPLIER_DEN ^ retryCount)

\* line 610 with the comparison off by one
ShouldRetryOffByOne(error, retryCount) ==
    (isNetworkError(error) \/ isServerError(error)) /\ retryCount <= MAX_RETRIES

\* line 610 without the classification of the error
ShouldRetryAnyError(error, retryCount) ==
    retryCount < MAX_RETRIES

\* line 610
ShouldRetry(error, retryCount) ==
    (isNetworkError(error) \/ isServerError(error)) /\ retryCount < MAX_RETRIES

RetryStart(op) ==
    [op |-> op, phase |-> "call", retryCount |-> 0, calls |-> 0,
     delays |-> <<>>, thrown |-> NoOutcome]

\* the invocation the automation model leaves untouched
RetryIdle ==
    [op |-> [succeedAt |-> 1, terminalAt |-> 0,
             transientErr |-> Err(<<"socket hang up">>, 0),
             terminalErr |-> Err(<<"Network", "Error">>, 0)],
     phase |-> "idle", retryCount |-> 0, calls |-> 0, delays |-> <<>>,
     thrown |-> NoOutcome]

\* lines 599-600: requestFn() is called and resolves
RetryCallReturns ==
    LET r == Outcome(retry.op, retry.calls + 1) IN
    /\ retry.phase = "call"
    /\ r.ok
    /\ retry' = [retry EXCEPT !.calls = @ + 1, !.phase = "returned"]
    /\ UNCHANGED <<autoVars, lastOp>>

\* lines 601-627: requestFn() rejects and the delay before the retry starts
RetryCallRetries ==
    LET r == Outcome(retry.op, retry.calls + 1) IN
    /\ retry.phase = "call"
    /\ ~r.ok
    /\ ShouldRetry(r.error, retry.retryCount)
    /\ retry' = [retry EXCEPT !.calls = @ + 1, !.phase = "delay",
                              !.delays = Append(@, RetryDelay(retry.retryCount))]
    /\ UNCHANGED <<autoVars, lastOp>>

\* lines 601-610 and 632: requestFn() rejects and the error is rethrown
RetryCallThrows ==
    LET r == Outcome(retry.op, retry.calls + 1) IN
    /\ retry.phase = "call"
    /\ ~r.ok
    /\ ~ShouldRetry(r.error, retry.retryCount)
    /\ retry' = [retry EXCEPT !.calls = @ + 1, !.phase = "threw",
                              !.thrown = r]
    /\ UNCHANGED <<autoVars, lastOp>>

\* lines 627-629: the delay is over, executeWithRetry(..., nextRetryCount)
RetryDelayDone ==
    /\ retry.phase = "delay"
    /\ retry' = [retry EXCEPT !.retryCount = @ + 1, !.phase = "call"]
    /\ UNCHANGED <<autoVars, lastOp>>

-----------------------------------------------------------------------------
(* Specifications *)

\* the state after the modules are loaded (lines 14-16), no command given yet
Loaded ==
    /\ isRunning = FALSE
    /\ consecutiveErrors = 0
    /\ cooldownActive = FALSE
    /\ cycles = EmptyBag
    /\ starts = EmptyBag
    /\ restartTimers = 0
    /\ paused = FALSE
    /\ startedSinceTimer = FALSE
    /\ quiet = FALSE
    /\ terminalStop = FALSE

Init ==
    /\ Loaded
    /\ chatFailStreak = -1
    /\ lastOp = "init"
    /\ retry = RetryIdle

Next ==
    \/ StartAutomation
    \/ KeyS
    \/ PauseAutomation
    \/ KeyP
    \/ ResumeAutomation
    \/ KeyR
    \/ StartStepDone
    \/ StartFinish
    \/ StartThrows
    \/ RestartFire
    \/ QuotaAvailable
    \/ QuotaExhausted
    \/ QuotaThrows
    \/ GenerateDone
    \/ GenerateThrows
    \/ SendDone
    \/ SendThrows
    \/ SleepDone
    \/ PointsDone
    \/ PointsFails
    \/ RateLimitDone
    \/ RateLimitFails
    \/ TimerFire
    \/ BackoffFire
    \/ CooldownEnd

Spec ==
    Init /\ [][Next]_vars

\* The automation left running: it is started (by command or by the
\* auto-restart timer) and no pause or resume command is given, with the
\* history of chat-send failures recorded.
BreakerInit ==
    /\ Loaded
    /\ chatFailStreak = 0
    /\ lastOp = "init"
    /\ retry = RetryIdle

BreakerNext ==
    \/ StartAutomation
    \/ KeyS
    \/ StartStepDone
    \/ StartFinish
    \/ StartThrows
    \/ RestartFire
    \/ QuotaAvailable
    \/ QuotaExhausted
    \/ QuotaThrows
    \/ GenerateDone
    \/ GenerateThrows
    \/ SendDone
    \/ SendThrows
    \/ SleepDone
    \/ PointsDone
    \/ PointsFails
    \/ RateLimitDone
    \/ RateLimitFails
    \/ TimerFire
    \/ BackoffFire
    \/ CooldownEnd

BreakerSpec ==
    BreakerInit /\ [][BreakerNext]_vars

\* The automation left running as in BreakerSpec, with the scheduling that
\* Node's event loop and the remote service provide: a timer that is due
\* fires (setTimeout, sleep, the end of the cooldown), an awaited request
\* settles one way or the other, and a request that is made again and again
\* does not fail every time (quota check and message generation).
LoopFairness ==
    /\ WF_vars(TimerFire)
    /\ WF_vars(BackoffFire)
    /\ WF_vars(CooldownEnd)
    /\ WF_vars(SleepDone)
    /\ WF_vars(QuotaAvailable \/ QuotaExhausted \/ QuotaThrows)
    /\ WF_vars(GenerateDone \/ GenerateThrows)
    /\ WF_vars(SendDone \/ SendThrows)
    /\ WF_vars(PointsDone \/ PointsFails)
    /\ WF_vars(RateLimitDone \/ RateLimitFails)
    /\ SF_vars(QuotaAvailable)
    /\ SF_vars(GenerateDone)

LiveSpec ==
    Init /\ [][BreakerNext]_vars /\ LoopFairness

RetryInit ==
    /\ Loaded
    /\ chatFailStreak = -1
    /\ lastOp = "init"
    /\ retry \in { RetryStart(op) : op \in Operations }

RetryNext ==
    \/ RetryCallReturns
    \/ RetryCallRetries
    \/ RetryCallThrows
    \/ RetryDelayDone

RetrySpec ==
    RetryInit /\ [][RetryNext]_vars

TypeOK ==
    /\ isRunning \in BOOLEAN
    /\ consecutiveErrors \in 0..MaxErrorCount
    /\ cooldownActive \in BOOLEAN
    /\ NumCycles <= MaxCycles
    /\ \A c \in BagToSet(cycles) : c.pc \in ExecutingPcs \cup PendingPcs
    /\ NumStarts <= MaxStarts
    /\ restartTimers \in 0..MaxRestartTimers
    /\ paused \in BOOLEAN
    /\ chatFailStreak \in (-1)..MAX_CONSECUTIVE_ERRORS
    /\ startedSinceTimer \in BOOLEAN
    /\ quiet \in BOOLEAN
    /\ terminalStop \in BOOLEAN

-----------------------------------------------------------------------------
(* Properties *)

\* C1: at most one automationLoop cycle is active or pending at a time,
\* counting executing cycles, next-cycle and re-poll timers, error-backoff
\* timers and pending cooldown callbacks.
C1_AtMostOneCycle ==
    NumCycles <= 1

\* a cycle calls chat.sendChatMessage in this step
SendInitiated ==
    CopiesIn(Cyc("send", 0), cycles') > CopiesIn(Cyc("send", 0), cycles)

\* C2: chat.sendChatMessage is never initiated while the cooldown is active.
C2_NoSendDuringCooldown ==
    [][SendInitiated => ~cooldownActive]_vars

RetryFinished ==
    retry.phase \in {"returned", "threw"}

\* every call of the operation before its first success throws a
\* transient-classified error
FailsOnlyTransiently ==
    \/ retry.op.terminalAt = 0
    \/ retry.op.succeedAt # 0 /\ retry.op.terminalAt >= retry.op.succeedAt

\* min(limit, s), s = 0 standing for an operation that never succeeds
MinCalls(limit, s) ==
    IF s = 0 \/ s > limit THEN limit ELSE s

\* the operation is called exactly min(limit, s) times, and when every call
\* failed the error of the last call is the one propagated
CallsExactly(limit) ==
    /\ FailsOnlyTransiently => retry.calls <= limit
    /\ (RetryFinished /\ FailsOnlyTransiently) =>
          /\ retry.calls = MinCalls(limit, retry.op.succeedAt)
          /\ (retry.phase = "returned") <=>
                (retry.op.succeedAt # 0 /\ retry.op.succeedAt <= limit)
          /\ retry.phase = "threw" =>
                retry.thrown = Outcome(retry.op, limit)

\* C3 as claimed: for an operation failing transiently until it succeeds on
\* call s, executeWithRetry makes exactly min(5, s) calls and propagates the
\* last error when all fail.
C3_CallsMinOfMaxRetries ==
    CallsExactly(MAX_RETRIES)

\* C3 amended: executeWithRetry makes exactly min(MAX_RETRIES + 1, s) calls,
\* the first call plus at most 5 retries, and propagates the error of the
\* last (sixth) call when all fail.
C3_CallsMinOfMaxRetriesPlusOne ==
    CallsExactly(MAX_RETRIES + 1)

\* an operation that never succeeds was called six times and its sixth error
\* was thrown
C3_Witness ==
    /\ retry.phase = "threw"
    /\ retry.op.succeedAt = 0
    /\ retry.op.terminalAt = 0
    /\ retry.calls = MAX_RETRIES + 1
    /\ retry.thrown.at = MAX_RETRIES + 1

\* the operation throws its terminal error before it ever succeeds
TerminalBeforeSuccess ==
    /\ retry.op.terminalAt # 0
    /\ retry.op.succeedAt = 0 \/ retry.op.terminalAt < retry.op.succeedAt

\* C4: a terminal-classified error is never retried: when the first call
\* throws it, the operation is called exactly once, no delay is waited and
\* that error is propagated; when it comes after transient failures, no
\* further call and no further delay follow it and it is the error propagated.
C4_TerminalNotRetried ==
    /\ TerminalBeforeSuccess => retry.calls <= retry.op.terminalAt
    /\ (TerminalBeforeSuccess /\ retry.calls = retry.op.terminalAt) =>
          /\ retry.phase = "threw"
          /\ retry.thrown = [ok |-> FALSE, error |-> retry.op.terminalErr,
                             at |-> retry.op.terminalAt]
          /\ Len(retry.delays) = retry.op.terminalAt - 1
    /\ (RetryFinished /\ TerminalBeforeSuccess /\ retry.op.terminalAt = 1) =>
          /\ retry.calls = 1
          /\ retry.delays = <<>>

\* the first call threw a terminal error and it was propagated at once
C4_Witness ==
    /\ retry.phase = "threw"
    /\ retry.op.terminalAt = 1
    /\ retry.op.succeedAt # 1
    /\ retry.calls = 1
    /\ retry.delays = <<>>
    /\ ~IsTransient(retry.thrown.error)

\* the 180 s pause of a chat-send failure is over in this step
LongPauseOver ==
    /\ BagIn(Cyc("sleep", LONG_PAUSE_MS), cycles)
    /\ CopiesIn(Cyc("sleep", LONG_PAUSE_MS), cycles')
          < CopiesIn(Cyc("sleep", LONG_PAUSE_MS), cycles)

\* C5: consecutiveErrors stays in 0..MAX_CONSECUTIVE_ERRORS, and is 0 right
\* after a successful chat send and after the 180 s pause has fired.
C5_CounterWithinThreshold ==
    [][/\ consecutiveErrors' \in 0..MAX_CONSECUTIVE_ERRORS
       /\ SendDone => consecutiveErrors' = 0
       /\ LongPauseOver => consecutiveErrors' = 0]_vars

\* the pause the breaker owes after chatFailStreak failures in a row
PauseOwed(streak) ==
    IF streak = MAX_CONSECUTIVE_ERRORS THEN LONG_PAUSE_MS
    ELSE CHAT_SHORT_PAUSE_MS

\* C6: with no pause or resume command, the third chat-send failure in a row
\* makes its cycle sleep 180 s (the first two sleep 10 s) and the counter is 0
\* after that sleep; three more failures are needed for the next 180 s sleep.
C6_ThirdChatFailureLongPause ==
    [][/\ SendThrows =>
             BagIn(Cyc("sleep", PauseOwed(chatFailStreak')), cycles')
       /\ LongPauseOver => consecutiveErrors' = 0]_vars

\* a resume request left run state, error counter and loop cycles as they were
ResumeChangedNothing ==
    /\ isRunning' = isRunning
    /\ consecutiveErrors' = consecutiveErrors
    /\ cycles' = cycles

\* C7 as claimed: resumeAutomation() changes nothing if and only if the
\* cooldown is active, whatever the run state.
C7_RejectedIffCooldown ==
    [][lastOp' = "resume" => (ResumeChangedNothing <=> cooldownActive)]_vars

\* C7 amended: resumeAutomation() changes nothing if and only if the
\* automation is already running or the cooldown is active.
C7_RejectedIffRunningOrCooldown ==
    [][lastOp' = "resume" =>
          (ResumeChangedNothing <=> (isRunning \/ cooldownActive))]_vars

\* a resume request was just rejected while paused during the cooldown
C7_Witness ==
    /\ lastOp = "resume"
    /\ cooldownActive
    /\ ~isRunning
    /\ paused
    /\ BagIn(Cyc("cooldown", 0), cycles)

\* C8: a resume request in Stopped (not running and not paused) does not set
\* the run state to running and starts no automationLoop cycle.
C8_ResumeOnlyFromPaused ==
    [][(lastOp' = "resume" /\ ~isRunning /\ ~paused) =>
          (~isRunning' /\ cycles' = cycles)]_vars

\* C9: startAutomation() called while running (in start-up or after it) is a
\* no-op: the run state stays running, no second start-up (login) begins and
\* no automationLoop cycle is started.
C9_SecondStartIsNoOp ==
    [][(lastOp' = "start" /\ isRunning) =>
          /\ isRunning'
          /\ starts' = starts
          /\ cycles' = cycles
          /\ consecutiveErrors' = consecutiveErrors
          /\ restartTimers' = restartTimers]_vars

\* startAutomation() was just called again while the first call was past its
\* login, still in start-up
C9_Witness ==
    /\ lastOp = "start"
    /\ isRunning
    /\ BagIn("getUserPoints", starts)

\* C10: when a start-up step throws, the run state is not running once
\* startAutomation() returns and that call has started no automationLoop
\* cycle, whatever pause and resume commands came during the start-up.
C10_FailedStartNotRunning ==
    [][lastOp' = "startFail" => (~isRunning' /\ cycles' = cycles)]_vars

\* a start-up just failed while an automationLoop cycle of another call is alive
C10_Witness ==
    /\ lastOp = "startFail"
    /\ ~isRunning
    /\ NumCycles > 0

\* the auto-restart timer of lines 113-118 fires in this step
RestartTimerFires ==
    restartTimers' < restartTimers

\* startAutomation() passes its guard in this step: a start-up begins
StartTakesEffect ==
    BagCardinality(starts') > BagCardinality(starts)

\* C11: the auto-restart timer calls startAutomation() only if no manual
\* start has occurred since the timer was scheduled; after a manual start
\* (and a pause) within the 10 s the timer does not restart the automation.
C11_NoRestartAfterManualStart ==
    [][(RestartTimerFires /\ startedSinceTimer) =>
          (~StartTakesEffect /\ isRunning' = isRunning)]_vars

\* the number of cycles at the await of step pc grows in this step: a cycle
\* issues that request
Initiated(pc) ==
    CopiesIn(Cyc(pc, 0), cycles') > CopiesIn(Cyc(pc, 0), cycles)

\* a cycle performs a quota check, a message generation or a chat send
CycleWorkInitiated ==
    \E pc \in {"quota", "generate", "send"} : Initiated(pc)

\* C12: if pauseAutomation() is called after a cycle's chat send succeeded
\* and before that cycle schedules its successor, no cycle performs a quota
\* check, a message generation or a chat send until resumeAutomation() is
\* called.
C12_QuietUntilResume ==
    [][(quiet /\ quiet') => ~CycleWorkInitiated]_vars

\* the cooldown ends in this step: its pending callback is consumed
CooldownEnds ==
    CopiesIn(Cyc("cooldown", 0), cycles')
        < CopiesIn(Cyc("cooldown", 0), cycles)

\* C13: when the cooldown ends, automationLoop is re-entered only if the run
\* state is Running at that moment; after a pause during the cooldown the end
\* of the cooldown performs no work and leaves the run state not Running.
C13_CooldownEndRespectsPause ==
    [][CooldownEnds =>
          /\ isRunning' = isRunning
          /\ ~isRunning => cycles' = cycles (-) One(Cyc("cooldown", 0))
          /\ isRunning => BagCardinality(cycles') = BagCardinality(cycles)]_vars

C13_Witness ==
    /\ lastOp = "cooldownEnd"
    /\ paused
    /\ ~isRunning
    /\ cycles = EmptyBag

\* the timer or callback c is created in this step
Scheduled(c) ==
    CopiesIn(c, cycles') > CopiesIn(c, cycles)

\* C14: every exception that escapes a cycle increments consecutiveErrors and
\* reschedules the loop by the ladder 1 -> 5 s, 2 -> 15 s, >= 3 -> 180 s with
\* the counter reset to 0, whatever the class of the error.
C14_LadderForEveryError ==
    [][\A c \in BagToSet(cycles') :
          (c.pc = "backoff" /\ Scheduled(c)) =>
              LET n == consecutiveErrors + 1 IN
              /\ n = 1 => c.delay = 5000
              /\ n = 2 => c.delay = 15000
              /\ n >= 3 => c.delay = 180000
              /\ consecutiveErrors' = IF n >= 3 THEN 0 ELSE n]_vars

\* C18: at the end of a cycle the next cycle's timer is created only if the
\* run state is still Running; a cycle that finds it not Running schedules
\* nothing; a scheduled delay is an integer in [3000, 10000) ms.
C18_SuccessorOnlyIfRunning ==
    [][\A c \in BagToSet(cycles') :
          (c.pc = "timer" /\ Scheduled(c)) =>
              (isRunning /\ c.delay \in 3000..9999)]_vars

\* a cycle issues a request: quota check, message generation, chat send,
\* points refresh or rate-limit refresh
RequestInitiated ==
    \E pc \in {"quota", "generate", "send", "points", "rateLimit"} :
        Initiated(pc)

\* C19: after pauseAutomation() returned the loop starts no new network
\* operation: the operation that was awaiting may complete, but the cycle in
\* progress issues no further request.
C19_NoRequestAfterPause ==
    [][(paused /\ ~isRunning /\ ~isRunning') => ~RequestInitiated]_vars

\* C20: a failure of the points refresh or of the rate-limit refresh changes
\* neither the run state nor consecutiveErrors nor the scheduling: the cycle
\* goes on and schedules its successor with the 3-10 s delay, as after a
\* successful refresh.
C20_RefreshFailureChangesNothing ==
    [][lastOp' = "refreshFail" =>
          /\ isRunning' = isRunning
          /\ consecutiveErrors' = consecutiveErrors
          /\ restartTimers' = restartTimers
          /\ \/ cycles' = (cycles (-) One(Cyc("points", 0)))
                              (+) One(Cyc("rateLimit", 0))
             \/ \E c \in BagToSet(cycles') :
                    /\ c.pc = "timer"
                    /\ c.delay \in 3000..9999
                    /\ cycles' = (cycles (-) One(Cyc("rateLimit", 0)))
                                     (+) One(c)]_vars

C20_Witness ==
    /\ lastOp = "refreshFail"
    /\ isRunning
    /\ NumCycles = 1
    /\ \E c \in BagToSet(cycles) : c.pc = "timer"

\* a loop-level catch has scheduled its backoff timer, which has not fired
BackoffPending ==
    \E c \in BagToSet(cycles) : c.pc = "backoff"

\* a cycle has started: it awaits its quota check, or it found the cooldown
\* active and scheduled its re-poll
CycleStarted ==
    \E c \in BagToSet(cycles) : c.pc \in {"quota", "poll"}

\* C15: after a cycle ended in a loop-level error, if the run state stays
\* Running, a new automationLoop cycle eventually starts.
C15_ErrorLeadsToNewCycle ==
    BackoffPending ~> (~isRunning \/ CycleStarted)

\* a cycle awaits its quota check with errors counted: it was started by a
\* backoff timer
C15_Witness ==
    /\ isRunning
    /\ consecutiveErrors > 0
    /\ cycles = One(Cyc("quota", 0))

\* the cycle handed over to the cooldown, whose callback is pending
CooldownPending ==
    BagIn(Cyc("cooldown", 0), cycles)

\* a cycle awaits chat.sendChatMessage
Sending ==
    BagIn(Cyc("send", 0), cycles)

RetryDelaySchedule ==
    <<2000, 3000, 4500, 6750, 10125>>

\* C17: the delay waited after the k-th failed attempt and before attempt
\* k+1 is 2000 * 1.5^(k-1) ms (2000, 3000, 4500, 6750, 10125 for k = 1..5),
\* and no delay precedes attempt 1.
C17_DelaySchedule ==
    /\ Len(retry.delays) <= Len(RetryDelaySchedule)
    /\ \A k \in 1..Len(retry.delays) :
          retry.delays[k] = RetryDelaySchedule[k]
    /\ retry.phase \in {"call", "delay"} => Len(retry.delays) = retry.calls
    /\ RetryFinished => Len(retry.delays) = retry.calls - 1

\* the fifth failed attempt is followed by the delay of 10125 ms
C17_Witness ==
    /\ retry.phase = "delay"
    /\ retry.calls = 5
    /\ retry.delays = RetryDelaySchedule

\* a cycle leaves the await of step pc in this step
Left(pc) ==
    \E c \in BagToSet(cycles) :
        c.pc = pc /\ CopiesIn(c, cycles') < CopiesIn(c, cycles)

\* a cycle comes to step pc in this step
Reached(pc) ==
    \E c \in BagToSet(cycles') :
        c.pc = pc /\ CopiesIn(c, cycles') > CopiesIn(c, cycles)

\* chat.sendChatMessage rejected in this step: the cycle left the send and
\* did not go on to the points refresh at once
SendFailed ==
    Left("send") /\ ~Reached("points")

\* C21: a chat-send failure never aborts the cycle and is never handled as a
\* loop-level error: it increments consecutiveErrors exactly once, the cycle
\* sleeps 10 s below the threshold and 180 s at it, then goes on to the
\* points refresh, the rate-limit refresh and the timer of its successor.
C21_SendFailureKeepsCycle ==
    [][/\ SendFailed =>
             /\ consecutiveErrors' = consecutiveErrors + 1
             /\ ~Reached("backoff")
             /\ cycles' = (cycles (-) One(Cyc("send", 0)))
                   (+) One(Cyc("sleep",
                               IF consecutiveErrors' >= 3 THEN 180000
                               ELSE 10000))
       /\ Left("sleep") =>
             (Reached("points") /\ NumCycles' = NumCycles)
       /\ Left("points") =>
             (Reached("rateLimit") /\ NumCycles' = NumCycles)
       /\ Left("rateLimit") =>
             (Reached("timer") /\ NumCycles' = NumCycles)]_vars

\* a chat send failed at the threshold and its cycle sleeps the 180 s
C21_Witness ==
    /\ consecutiveErrors = MAX_CONSECUTIVE_ERRORS
    /\ BagIn(Cyc("sleep", LONG_PAUSE_MS), cycles)

\* C22: when a cycle initiates chat.sendChatMessage consecutiveErrors is 0,
\* and a chat-send failure always takes the counter from 0 to 1.
C22_SendStartsFromZero ==
    [][/\ SendInitiated => consecutiveErrors' = 0
       /\ SendFailed => (consecutiveErrors = 0 /\ consecutiveErrors' = 1)]_vars

\* C23: a start-up failure with a terminal error schedules no auto-restart
\* timer and the automation stays not running until a start or resume
\* command is given; a failure with a transient error schedules exactly one
\* auto-restart timer.
C23_TerminalFailureStaysStopped ==
    [][/\ lastOp' = "startFail" =>
             /\ ~isRunning'
             /\ restartTimers' =
                   IF terminalStop' THEN restartTimers ELSE restartTimers + 1
       /\ (terminalStop /\ lastOp' \notin {"start", "resume"}) =>
             ~isRunning']_vars

====
